---- MODULE Spec2Model ----
(***************************************************************************)
(* A model of src/sync.py: the walk of main() over a local directory tree, *)
(* the per-file comparison against the remote listing, the confirmation    *)
(* helper yesno(), list_directory() and upload().                          *)
(*                                                                         *)
(* The model starts where the walk starts (src/sync.py:65), with           *)
(* `directory` and `rootdir` bound to the destination and the source given *)
(* on the command line and with the flags argparse accepted.  The remote   *)
(* store is the external collaborator: a listing call and an upload call   *)
(* that either answer or raise.                                            *)
(***************************************************************************)
EXTENDS Integers, Sequences, FiniteSets, TLC

VARIABLES
    args,       \* the parsed flags: [yes, no, default]
    pc,         \* "start" | "usage" | "list" | "files" | "dirs" | "input" | "walk" |
                \* "done" | "quit" | "crashed"
    stack,      \* directories os.walk still has to yield, the current one first
    idx,        \* index of the entry of `files` / `dirs` the loop is at
    keep,       \* the list `keep` of the current directory
    listing,    \* the dict list_directory returned for the current directory
    remote,     \* the remote store: directory -> (name -> metadata)
    revealed,   \* the remote directories whose content is known so far
    pending,    \* the question yesno() is blocked on in input()
    reprompts,  \* unrecognized answers given to the pending question
    trace,      \* what the run did, in order
    exitcode,   \* the exit status of the process, -1 while it runs
    argv,       \* the confirmation flags given on the command line
    run,        \* the number of the run over the tree: 1, or 2 for a re-run
    paths,      \* the remote paths built from one (directory, subdirectory, name)
    hashing,    \* one call of dropbox_hash: the file, the reads, the hasher
    yn          \* one call of yesno: its default, the lines typed, its outcome

vars == <<args, pc, stack, idx, keep, listing, remote, revealed, pending,
          reprompts, trace, exitcode, argv, run, paths, hashing, yn>>

\* What the walk leaves alone: the command line, the run number and the
\* three single calls studied on their own.
aux == <<argv, run, paths, hashing, yn>>

\* ------------------------------------------------------------------ bounds
MaxReprompts == 1

\* ------------------------------------------------------------------- names
\* A name is a sequence of characters; a character is a one-token string.
N_a == <<"a">>
N_e_nfd == <<"e", "COMBINING_ACUTE">>
N_e_nfc == <<"E_ACUTE">>
N_env == <<".", "e", "n", "v">>
N_tmp == <<"@", "t", "m", "p">>
N_backup == <<"b", "a", "k", "~">>
N_pyc == <<"m", ".", "p", "y", "c">>
N_pyo == <<"m", ".", "p", "y", "o">>
N_c == <<"c">>
N_x == <<"x">>
N_git == <<".", "g", "i", "t">>
N_eadir == <<"@", "e", "a">>
N_old == <<"o", "l", "d", "~">>
N_pycache == <<"_", "_", "p", "y", "c", "a", "c", "h", "e", "_", "_">>
N_sub == <<"s", "u", "b">>
N_deep == <<"d", "e", "e", "p">>
N_t == <<"t">>

Range(s) == {s[i] : i \in 1..Len(s)}

StartsWith(name, prefix) ==
    /\ Len(name) >= Len(prefix)
    /\ SubSeq(name, 1, Len(prefix)) = prefix

EndsWith(name, suffix) ==
    /\ Len(name) >= Len(suffix)
    /\ SubSeq(name, Len(name) - Len(suffix) + 1, Len(name)) = suffix

\* The name left as the filesystem stores it.
NFCSkipped(name) == name

\* unicodedata.normalize('NFC', name): a base letter followed by a combining
\* mark is replaced by the precomposed letter.
RECURSIVE NFC(_)
NFC(name) ==
    IF Len(name) = 0 THEN <<>>
    ELSE IF Len(name) >= 2 /\ name[1] = "e" /\ name[2] = "COMBINING_ACUTE"
         THEN <<"E_ACUTE">> \o NFC(SubSeq(name, 3, Len(name)))
         ELSE <<name[1]>> \o NFC(Tail(name))

\* -------------------------------------------------------- the local tree
\* What os.walk finds below rootdir: per directory (a sequence of names,
\* relative to rootdir) its files and its subdirectories, in scan order.
Files(dn) ==
    CASE dn = <<>> -> <<N_a, N_env, N_e_nfd, N_tmp, N_backup, N_pyc, N_pyo>>
      [] dn = <<N_sub>> -> <<N_c>>
      [] dn = <<N_pycache>> -> <<N_x>>
      [] dn = <<N_git>> -> <<N_x>>
      [] OTHER -> <<>>

Dirs(dn) ==
    CASE dn = <<>> -> <<N_git, N_sub, N_eadir, N_old, N_pycache, N_t>>
      [] dn = <<N_sub>> -> <<N_deep>>
      [] dn = <<N_pycache>> -> <<N_sub>>
      [] OTHER -> <<>>

AllDirs ==
    {<<>>, <<N_git>>, <<N_sub>>, <<N_sub, N_deep>>, <<N_eadir>>, <<N_old>>,
     <<N_pycache>>, <<N_pycache, N_sub>>, <<N_t>>}

\* os.path.getmtime in milliseconds and the bytes of the file.
LocalMtime(dn, name) == IF name = N_c THEN 2999 ELSE 1500
LocalContent(dn, name) == <<1>>

\* The modification time taken with its fraction, in milliseconds.
MtimeDtRaw(mtime) == mtime

\* datetime.datetime(*time.gmtime(mtime)[:6]): whole seconds, fraction dropped.
MtimeDt(mtime) == mtime \div 1000

\* os.path.getsize
GetSize(content) == Len(content)

\* --------------------------------------------------------- content hash
Sha256(x) == <<"sha256", x>>

\* The hasher's block, 4 MiB in the remote store's algorithm, scaled to a
\* few bytes so that files of a few bytes span several blocks.
BlockSize == 2

\* The bytes f.read asks for.
ReadChunk == 1024

Min(a, b) == IF a <= b THEN a ELSE b

\* DropboxContentHasher(): an empty open block and no block digest yet.
NewHasher == [block |-> <<>>, digests |-> <<>>]

\* hasher.update(data): the bytes go to the open block; a full block is
\* digested and a new one opened when more bytes arrive.
RECURSIVE HasherUpdate(_, _)
HasherUpdate(h, data) ==
    IF data = <<>> THEN h
    ELSE LET h1 == IF Len(h.block) = BlockSize
                   THEN [block |-> <<>>, digests |-> Append(h.digests, Sha256(h.block))]
                   ELSE h
             n == Min(BlockSize - Len(h1.block), Len(data)) IN
         HasherUpdate([h1 EXCEPT !.block = @ \o SubSeq(data, 1, n)],
                      SubSeq(data, n + 1, Len(data)))

\* hasher.hexdigest(): the digest of the block digests, the open block's
\* last when it holds bytes.
HexDigest(h) ==
    Sha256(IF h.block # <<>> THEN Append(h.digests, Sha256(h.block)) ELSE h.digests)

\* A read that returns full chunks only: the short last one is lost.
FReadFullOnly(content, pos, n) ==
    IF pos + n <= Len(content) THEN SubSeq(content, pos + 1, pos + n) ELSE <<>>

\* f.read(n) at offset pos of a regular file: the next n bytes, fewer at
\* the end of the file, none after it.
FRead(content, pos, n) == SubSeq(content, pos + 1, Min(pos + n, Len(content)))

\* The loop of dropbox_hash reading n bytes at a time: every chunk read is
\* fed to the hasher, in order, until a read returns nothing.
RECURSIVE ReadAll(_, _, _, _)
ReadAll(h, content, pos, n) ==
    LET chunk == FRead(content, pos, n) IN
    IF Len(chunk) = 0 THEN h
    ELSE ReadAll(HasherUpdate(h, chunk), content, pos + Len(chunk), n)

HashWith(content, n) == HexDigest(ReadAll(NewHasher, content, 0, n))

\* dropbox_hash(fn)
dropbox_hash(content) == HashWith(content, ReadChunk)

\* --------------------------------------------------------- remote entries
NoAttr == "NoAttr"

FileMetadata(name, cm, content) ==
    [tag |-> "FileMetadata", name |-> name, client_modified |-> cm,
     size |-> GetSize(content), content_hash |-> dropbox_hash(content)]

FolderMetadata(name) ==
    [tag |-> "FolderMetadata", name |-> name, client_modified |-> NoAttr,
     size |-> NoAttr, content_hash |-> NoAttr]

RemoteMtimes == {1, 2}
RemoteContents == {<<1>>, <<2>>, <<1, 1>>}

\* The entries the remote store may hold under a name: a folder or a file of
\* any of the times and contents above; the dot file, if the store has it at
\* all, is a file that differs from the local one.
RemoteEntries(name) ==
    IF name = N_env
    THEN {FileMetadata(name, 2, <<2>>)}
    ELSE {FolderMetadata(name)} \cup
         {FileMetadata(name, cm, c) : cm \in RemoteMtimes, c \in RemoteContents}

\* isinstance(md, dropbox.files.FileMetadata)
IsFileMetadata(md) == md.tag = "FileMetadata"

EmptyListing == [n \in {} |-> NoAttr]

\* --------------------------------------------------------- pruning rules
\* The chain without its last skipping branch.
PruneFileNoGenerated(name) ==
    IF StartsWith(name, <<".">>) THEN "dot file"
    ELSE IF StartsWith(name, <<"@">>) \/ EndsWith(name, <<"~">>) THEN "temporary file"
    ELSE "keep"

\* The if/elif chain of the file loop: the reason a file name is skipped
\* for, or "keep".
PruneFile(name) ==
    IF StartsWith(name, <<".">>) THEN "dot file"
    ELSE IF StartsWith(name, <<"@">>) \/ EndsWith(name, <<"~">>) THEN "temporary file"
    ELSE IF EndsWith(name, <<".", "p", "y", "c">>) \/ EndsWith(name, <<".", "p", "y", "o">>)
         THEN "generated file"
    ELSE "keep"

\* The if/elif chain of the directory loop.
PruneDir(name) ==
    IF StartsWith(name, <<".">>) THEN "dot directory"
    ELSE IF StartsWith(name, <<"@">>) \/ EndsWith(name, <<"~">>) THEN "temporary directory"
    ELSE IF name = N_pycache THEN "generated directory"
    ELSE "keep"

\* ------------------------------------------------------- the remote store
\* The names a remote directory may hold an entry for: the composed names of
\* local files of the directory.
RemoteNames(dn) ==
    CASE dn = <<>> -> {N_a, N_e_nfc, N_env}
      [] dn = <<N_sub>> -> {N_c}
      [] OTHER -> {}

\* The contents a remote directory may have: a set of entries, one per name.
RemoteDirStates(dn) ==
    UNION {{{f[n] : n \in N} : f \in {g \in [N -> UNION {RemoteEntries(m) : m \in N}] :
                                       \A n \in N : g[n].name = n}} :
           N \in SUBSET RemoteNames(dn)}

EntryNames(entries) == {e.name : e \in entries}

\* What the store holds for a directory when it is first looked at, given
\* the entries the run itself has put there.
RevealedStates(dn, stored) ==
    {stored \cup {e \in S : e.name \notin EntryNames(stored)} : S \in RemoteDirStates(dn)}

\* list_directory: the dict built from res.entries, or {} on ApiError.
list_directory(out, entries) ==
    IF out = "ok"
    THEN [n \in EntryNames(entries) |-> CHOOSE e \in entries : e.name = n]
    ELSE EmptyListing

ListOutcomes == {"ok", "ApiError", "HttpError"}
UploadOutcomes == {"ok", "ApiError", "HttpError"}

\* ------------------------------------------------------------ the trace
Ev(op, dn, name, x, b) == [op |-> op, dn |-> dn, name |-> name, x |-> x, b |-> b]

NoPending == [what |-> "none", dn |-> <<>>, name |-> <<>>, default |-> FALSE]

\* ------------------------------------------------------- loop positions
\* The two loops exchanged: the directory loop first, then the file loop.
PosDirsFirst(phase, i, dn) ==
    IF phase = "files" /\ i = 1 THEN
        (IF Len(Dirs(dn)) >= 1 THEN <<"dirs", 1>>
         ELSE IF Len(Files(dn)) >= 1 THEN <<"files", 1>> ELSE <<"walk", 0>>)
    ELSE IF phase = "files" THEN
        (IF i <= Len(Files(dn)) THEN <<"files", i>> ELSE <<"walk", 0>>)
    ELSE IF i <= Len(Dirs(dn)) THEN <<"dirs", i>>
    ELSE IF Len(Files(dn)) >= 1 THEN <<"files", 1>>
    ELSE <<"walk", 0>>

\* The next position of the two loops of a directory: the file loop, then
\* the directory loop, then back to os.walk.
Pos(phase, i, dn) ==
    IF phase = "files" /\ i <= Len(Files(dn)) THEN <<"files", i>>
    ELSE IF phase = "files" THEN
        (IF Len(Dirs(dn)) >= 1 THEN <<"dirs", 1>> ELSE <<"walk", 0>>)
    ELSE IF i <= Len(Dirs(dn)) THEN <<"dirs", i>>
    ELSE <<"walk", 0>>

Goto(p) == pc' = p[1] /\ idx' = p[2]

CurDir == Head(stack)

\* --------------------------------------------------------------- Init
FlagSets ==
    {f \in [yes : BOOLEAN, no : BOOLEAN, default : BOOLEAN] :
        Cardinality({k \in {"yes", "no", "default"} : f[k]}) <= 1}

\* The flags a command line may carry, and the namespace before parsing.
Flags == {"yes", "no", "default"}
NoArgs == [yes |-> FALSE, no |-> FALSE, default |-> FALSE]

NoPaths == [at |-> "idle"]
NoHashing == [at |-> "idle"]
NoYesno == [at |-> "idle"]

\* The state main() starts the walk from, but for the flags.
WalkInit ==
    /\ stack = <<<<>>>>
    /\ idx = 0
    /\ keep = <<>>
    /\ listing = EmptyListing
    /\ remote = [d \in AllDirs |-> {}]
    /\ revealed = {}
    /\ pending = NoPending
    /\ reprompts = 0
    /\ trace = <<>>
    /\ exitcode = -1
    /\ run = 1

Init ==
    /\ argv \in SUBSET Flags
    /\ args = NoArgs
    /\ pc = "start"
    /\ WalkInit
    /\ paths = NoPaths
    /\ hashing = NoHashing
    /\ yn = NoYesno

\* The mutually exclusive group taken as a plain group: no conflict.
NoConflict(given) == FALSE

\* parserGroup = parser.add_mutually_exclusive_group(): two different
\* options of the group on one command line are an error.
Conflict(given) == Cardinality(given) > 1

\* args = parser.parse_args(): the namespace, or the usage error with exit
\* status 2.
ParseArgs ==
    /\ pc = "start"
    /\ IF Conflict(argv)
       THEN /\ pc' = "usage"
            /\ exitcode' = 2
            /\ args' = args
       ELSE /\ pc' = "list"
            /\ exitcode' = exitcode
            /\ args' = [yes |-> "yes" \in argv, no |-> "no" \in argv,
                        default |-> "default" \in argv]
    /\ UNCHANGED <<stack, idx, keep, listing, remote, revealed, pending, reprompts,
                   trace, argv, run, paths, hashing, yn>>

\* ------------------------------------------------------ list_directory
ListDirectory ==
    /\ pc = "list"
    /\ UNCHANGED aux
    /\ \E out \in ListOutcomes :
        \/ /\ out = "ok"
           /\ \E entries \in (IF CurDir \in revealed THEN {remote[CurDir]}
                              ELSE RevealedStates(CurDir, remote[CurDir])) :
                /\ remote' = [remote EXCEPT ![CurDir] = entries]
                /\ revealed' = revealed \cup {CurDir}
                /\ listing' = list_directory(out, entries)
           /\ trace' = Append(trace, Ev("list", CurDir, <<>>, out, TRUE))
           /\ Goto(Pos("files", 1, CurDir))
           /\ UNCHANGED exitcode
        \/ /\ out = "ApiError"
           /\ listing' = list_directory(out, {})
           /\ trace' = Append(trace, Ev("list", CurDir, <<>>, out, FALSE))
           /\ Goto(Pos("files", 1, CurDir))
           /\ UNCHANGED <<remote, revealed, exitcode>>
        \/ /\ out = "HttpError"
           /\ trace' = Append(Append(trace, Ev("list", CurDir, <<>>, out, FALSE)),
                              Ev("exception", CurDir, <<>>, out, FALSE))
           /\ pc' = "crashed"
           /\ exitcode' = 1
           /\ UNCHANGED <<idx, listing, remote, revealed>>
    /\ keep' = <<>>
    /\ UNCHANGED <<args, stack, pending, reprompts>>

\* ---------------------------------------------------------------- yesno
\* The listing fetched anew from the store after each file.
SnapshotRefetched ==
    listing' = IF CurDir \in revealed
               THEN list_directory("ok", remote'[CurDir])
               ELSE listing

\* `listing` is assigned once per directory, before the file loop: the
\* loops over its files and subdirectories leave it as fetched.
SnapshotKept == listing' = listing

\* The forced answers without the --no branch: the question is prompted.
AutoAnswerNoPrompts(default) ==
    IF args.default THEN [forced |-> TRUE, value |-> default]
    ELSE IF args.yes THEN [forced |-> TRUE, value |-> TRUE]
    ELSE [forced |-> FALSE, value |-> default]

\* The forced answers with --default answering yes.
AutoAnswerDefaultYes(default) ==
    IF args.default \/ args.yes THEN [forced |-> TRUE, value |-> TRUE]
    ELSE IF args.no THEN [forced |-> TRUE, value |-> FALSE]
    ELSE [forced |-> FALSE, value |-> default]

\* The three forced answers of yesno, in the order the code tests them.
AutoAnswer(default) ==
    IF args.default THEN [forced |-> TRUE, value |-> default]
    ELSE IF args.yes THEN [forced |-> TRUE, value |-> TRUE]
    ELSE IF args.no THEN [forced |-> TRUE, value |-> FALSE]
    ELSE [forced |-> FALSE, value |-> default]

\* str.lower on the characters an answer is typed with.
LowerChar(c) ==
    CASE c = "Y" -> "y" [] c = "E" -> "e" [] c = "S" -> "s" [] c = "N" -> "n"
      [] c = "O" -> "o" [] c = "Q" -> "q" [] OTHER -> c

Lower(s) == [i \in 1..Len(s) |-> LowerChar(s[i])]

\* str.strip: leading and trailing blanks removed.
RECURSIVE Strip(_)
Strip(s) ==
    IF Len(s) = 0 THEN s
    ELSE IF s[1] = " " THEN Strip(Tail(s))
    ELSE IF s[Len(s)] = " " THEN Strip(SubSeq(s, 1, Len(s) - 1))
    ELSE s

\* The loop of yesno without its retry: an answer it does not know is
\* taken as the default.
InterpretNoRetry(answer, default) ==
    IF answer \in {<<"y">>, <<"y", "e", "s">>} THEN [kind |-> "return", value |-> TRUE]
    ELSE IF answer \in {<<"n">>, <<"n", "o">>} THEN [kind |-> "return", value |-> FALSE]
    ELSE IF answer \in {<<"q">>, <<"q", "u", "i", "t">>} THEN [kind |-> "quit", value |-> FALSE]
    ELSE [kind |-> "return", value |-> default]

\* One turn of the while loop of yesno on the stripped, lowered answer.
Interpret(answer, default) ==
    IF answer = <<>> THEN [kind |-> "return", value |-> default]
    ELSE IF answer \in {<<"y">>, <<"y", "e", "s">>} THEN [kind |-> "return", value |-> TRUE]
    ELSE IF answer \in {<<"n">>, <<"n", "o">>} THEN [kind |-> "return", value |-> FALSE]
    ELSE IF answer \in {<<"q">>, <<"q", "u", "i", "t">>} THEN [kind |-> "quit", value |-> FALSE]
    ELSE [kind |-> "again", value |-> FALSE]

\* What may be typed at a prompt.
Inputs ==
    {<<>>, <<" ">>, <<"y">>, <<" ", "Y", "e", "s">>, <<"n">>, <<"N", "O", " ">>,
     <<"q">>, <<"Q", "u", "i", "t">>, <<"p">>, <<"p", "d", "b">>, <<"x">>, <<"y", "e">>}

\* --------------------------------------------------------------- upload
\* The two modes exchanged.
WriteModeSwapped(overwrite) == IF overwrite THEN "add" ELSE "overwrite"

\* mode = WriteMode.overwrite if overwrite else WriteMode.add
WriteMode(overwrite) == IF overwrite THEN "overwrite" ELSE "add"

\* What the store answers to an upload: in mode add it does not replace an
\* entry it is known to hold with other content.
UploadAllowed(dn, name, mode, content, out) ==
    \/ out # "ok"
    \/ mode = "overwrite"
    \/ dn \notin revealed
    \/ \A e \in remote[dn] :
         e.name = name => (IsFileMetadata(e) /\ e.content_hash = dropbox_hash(content))

\* The entry the store holds after a successful upload.
Stored(dn, name) ==
    FileMetadata(name, MtimeDt(LocalMtime(dn, name)), LocalContent(dn, name))

\* upload(dbx, fullname, directory, subdirectory, name, overwrite), called
\* from the file loop; tr is the trace up to the call.
Upload(dn, name, overwrite, tr) ==
    LET mode == WriteMode(overwrite)
        tr1 == Append(tr, Ev("upload", dn, name, mode, overwrite)) IN
    \E out \in UploadOutcomes :
        /\ UploadAllowed(dn, name, mode, LocalContent(dn, name), out)
        /\ \/ /\ out = "ok"
              /\ remote' = [remote EXCEPT ![dn] =
                              {e \in @ : e.name # name} \cup {Stored(dn, name)}]
              /\ trace' = Append(tr1, Ev("uploaded", dn, name, mode, TRUE))
              /\ Goto(Pos("files", idx + 1, dn))
              /\ UNCHANGED exitcode
           \/ /\ out = "ApiError"
              /\ trace' = Append(tr1, Ev("api error", dn, name, mode, FALSE))
              /\ Goto(Pos("files", idx + 1, dn))
              /\ UNCHANGED <<remote, exitcode>>
           \/ /\ out = "HttpError"
              /\ trace' = Append(tr1, Ev("exception", dn, name, out, FALSE))
              /\ pc' = "crashed"
              /\ exitcode' = 1
              /\ UNCHANGED <<remote, idx>>

\* What the caller of yesno does with the answer.
Resolve(what, dn, name, result, tr) ==
    LET tr1 == Append(tr, Ev("return", dn, name, what, result)) IN
    /\ pending' = NoPending
    /\ reprompts' = 0
    /\ IF what = "Descend"
       THEN /\ keep' = IF result THEN Append(keep, name) ELSE keep
            /\ trace' = tr1
            /\ Goto(Pos("dirs", idx + 1, dn))
            /\ UNCHANGED <<remote, exitcode>>
       ELSE /\ keep' = keep
            /\ IF result
               THEN Upload(dn, name, what = "Refresh", tr1)
               ELSE /\ trace' = tr1
                    /\ Goto(Pos("files", idx + 1, dn))
                    /\ UNCHANGED <<remote, exitcode>>

\* yesno(message, default, args) up to its first input().
Ask(what, dn, name, default, tr) ==
    LET tr1 == Append(tr, Ev("yesno", dn, name, what, default)) IN
    IF AutoAnswer(default).forced
    THEN Resolve(what, dn, name, AutoAnswer(default).value, tr1)
    ELSE /\ pending' = [what |-> what, dn |-> dn, name |-> name, default |-> default]
         /\ trace' = Append(tr1, Ev("input", dn, name, what, default))
         /\ pc' = "input"
         /\ UNCHANGED <<idx, keep, remote, reprompts, exitcode>>

\* The quit answer taken as a no to the question asked.
QuitAsNo ==
    Resolve(pending.what, pending.dn, pending.name, FALSE,
            Append(trace, Ev("quit", pending.dn, pending.name, pending.what, FALSE)))

\* print('Exit'); raise SystemExit(0): nothing catches it, the process ends.
Quit ==
    /\ trace' = Append(trace, Ev("quit", pending.dn, pending.name, pending.what, FALSE))
    /\ pc' = "quit"
    /\ exitcode' = 0
    /\ UNCHANGED <<idx, keep, remote, pending, reprompts>>

\* input() returned a line.
Answer ==
    /\ pc = "input"
    /\ UNCHANGED aux
    /\ \E raw \in Inputs :
        LET r == Interpret(Lower(Strip(raw)), pending.default) IN
        \/ /\ r.kind = "return"
           /\ Resolve(pending.what, pending.dn, pending.name, r.value, trace)
        \/ /\ r.kind = "quit"
           /\ Quit
        \/ /\ r.kind = "again"
           /\ reprompts < MaxReprompts
           /\ reprompts' = reprompts + 1
           /\ UNCHANGED <<pc, idx, keep, remote, pending, trace, exitcode>>
    /\ SnapshotKept
    /\ UNCHANGED <<args, stack, revealed>>

\* input() met the end of its input: EOFError, which nothing catches.
InputEOF ==
    /\ pc = "input"
    /\ UNCHANGED aux
    /\ trace' = Append(trace, Ev("exception", pending.dn, pending.name, "EOFError", FALSE))
    /\ pc' = "crashed"
    /\ exitcode' = 1
    /\ UNCHANGED <<args, stack, idx, keep, listing, remote, revealed, pending, reprompts>>

\* -------------------------------------------------------- the file loop
CurFile == Files(CurDir)[idx]

\* mtime_dt == md.client_modified and size == md.size
StatsMatch(md, mtime_dt, size) == mtime_dt = md.client_modified /\ size = md.size

\* The hash comparison taken as failed whenever the stats differ.
HashDiffersAlways(db_hash, md) == TRUE

\* db_hash != md.content_hash
HashDiffers(db_hash, md) == db_hash # md.content_hash

\* A file one of the three skipping branches takes.
SkipFile ==
    /\ pc = "files"
    /\ UNCHANGED aux
    /\ PruneFile(CurFile) # "keep"
    /\ trace' = Append(trace, Ev("skip", CurDir, CurFile, PruneFile(CurFile), FALSE))
    /\ Goto(Pos("files", idx + 1, CurDir))
    /\ UNCHANGED <<args, stack, keep, listing, remote, revealed, pending, reprompts, exitcode>>

\* A kept file whose composed name is a key of the listing.
CompareFile ==
    /\ pc = "files"
    /\ UNCHANGED aux
    /\ PruneFile(CurFile) = "keep"
    /\ NFC(CurFile) \in DOMAIN listing
    /\ LET dn == CurDir
           name == CurFile
           md == listing[NFC(name)]
           mtime_dt == MtimeDt(LocalMtime(dn, name))
           size == GetSize(LocalContent(dn, name))
           tr0 == Append(trace, Ev("lookup", dn, name, "found", TRUE)) IN
       IF IsFileMetadata(md) /\ StatsMatch(md, mtime_dt, size)
       THEN /\ trace' = Append(tr0, Ev("synced", dn, name, "stats match", TRUE))
            /\ Goto(Pos("files", idx + 1, dn))
            /\ UNCHANGED <<keep, remote, pending, reprompts, exitcode>>
       ELSE IF ~IsFileMetadata(md)
       THEN \* the entry is printed as lacking metadata, then md.client_modified
            \* is read: a folder entry has no such attribute
            /\ trace' = Append(Append(tr0, Ev("no metadata", dn, name, md.tag, FALSE)),
                               Ev("exception", dn, name, "AttributeError", FALSE))
            /\ pc' = "crashed"
            /\ exitcode' = 1
            /\ UNCHANGED <<idx, keep, remote, pending, reprompts>>
       ELSE LET db_hash == dropbox_hash(LocalContent(dn, name))
                tr1 == Append(tr0, Ev("hash", dn, name, "dropbox_hash", TRUE)) IN
            IF HashDiffers(db_hash, md)
            THEN Ask("Refresh", dn, name, FALSE,
                     Append(tr1, Ev("mismatch", dn, name, "hash is different", FALSE)))
            ELSE /\ trace' = Append(tr1, Ev("synced", dn, name, "hash matches", TRUE))
                 /\ Goto(Pos("files", idx + 1, dn))
                 /\ UNCHANGED <<keep, remote, pending, reprompts, exitcode>>
    /\ SnapshotKept
    /\ UNCHANGED <<args, stack, revealed>>

\* A kept file whose composed name is no key of the listing.
NewFile ==
    /\ pc = "files"
    /\ UNCHANGED aux
    /\ PruneFile(CurFile) = "keep"
    /\ NFC(CurFile) \notin DOMAIN listing
    /\ Ask("Upload", CurDir, CurFile, TRUE,
           Append(trace, Ev("lookup", CurDir, CurFile, "absent", FALSE)))
    /\ SnapshotKept
    /\ UNCHANGED <<args, stack, revealed>>

\* --------------------------------------------------- the directory loop
CurSub == Dirs(CurDir)[idx]

SkipDir ==
    /\ pc = "dirs"
    /\ UNCHANGED aux
    /\ PruneDir(CurSub) # "keep"
    /\ trace' = Append(trace, Ev("skip", CurDir, CurSub, PruneDir(CurSub), FALSE))
    /\ Goto(Pos("dirs", idx + 1, CurDir))
    /\ UNCHANGED <<args, stack, keep, listing, remote, revealed, pending, reprompts, exitcode>>

OfferDir ==
    /\ pc = "dirs"
    /\ UNCHANGED aux
    /\ PruneDir(CurSub) = "keep"
    /\ Ask("Descend", CurDir, CurSub, TRUE, trace)
    /\ SnapshotKept
    /\ UNCHANGED <<args, stack, revealed>>

\* The subdirectories left as os.walk listed them.
WalkDirsUnfiltered == Dirs(CurDir)

\* dirs[:] = keep: the subdirectories os.walk descends into.
WalkDirs == keep

\* dirs[:] = keep, and os.walk goes on: the kept subdirectories first, in
\* order, then what was pending above.
WalkNext ==
    /\ pc = "walk"
    /\ UNCHANGED aux
    /\ LET below == [i \in 1..Len(WalkDirs) |-> Append(CurDir, WalkDirs[i])]
           rest == below \o Tail(stack) IN
       /\ stack' = rest
       /\ IF rest = <<>>
          THEN pc' = "done" /\ exitcode' = 0
          ELSE pc' = "list" /\ exitcode' = exitcode
    /\ idx' = 0
    /\ UNCHANGED <<args, keep, listing, remote, revealed, pending, reprompts, trace>>

Next ==
    \/ ParseArgs
    \/ ListDirectory
    \/ SkipFile
    \/ CompareFile
    \/ NewFile
    \/ SkipDir
    \/ OfferDir
    \/ Answer
    \/ InputEOF
    \/ WalkNext

Spec == Init /\ [][Next]_vars

\* --------------------------------------------------------------------
\* Reading the trace
\* --------------------------------------------------------------------
\* The positions of the trace that hold an event `op` about entry `name` of
\* directory `dn`.
At(op, dn, name) ==
    {i \in 1..Len(trace) : trace[i].op = op /\ trace[i].dn = dn /\ trace[i].name = name}

\* The calls of yesno about a file (to upload it or to refresh it).
FileQuestions(dn, name) ==
    {i \in At("yesno", dn, name) : trace[i].x \in {"Upload", "Refresh"}}

FileReturns(dn, name, b) ==
    {i \in At("return", dn, name) : trace[i].x \in {"Upload", "Refresh"} /\ trace[i].b = b}

\* The file loop has looked the file up in the listing.
Looked(dn, name) == At("lookup", dn, name) # {}

\* `listing` is the listing of the directory at the head of the stack.
InDir == stack # <<>> /\ pc # "list"

\* The files of the current directory the file loop has got to and kept.
Reached == IF InDir THEN {n \in Range(Files(CurDir)) : Looked(CurDir, n)} ELSE {}

Md(name) == listing[NFC(name)]
Matched(name) == NFC(name) \in DOMAIN listing
MatchedFile(name) == Matched(name) /\ Md(name).tag = "FileMetadata"
MatchedFolder(name) == Matched(name) /\ Md(name).tag = "FolderMetadata"

\* The stats and the hash of the local file against the matched file record.
SameStats(name) ==
    /\ LocalMtime(CurDir, name) \div 1000 = Md(name).client_modified
    /\ Len(LocalContent(CurDir, name)) = Md(name).size
SameHash(name) == Md(name).content_hash = Sha256(<<Sha256(LocalContent(CurDir, name))>>)

\* --------------------------------------------------------------------
\* C1: a kept file matched to a remote file record whose (mtime, size)
\* differs from the local one but whose contentHash equals the local content
\* hash is classified as already synced: yesno is not called for it and no
\* upload is attempted, whatever the flags.
C1_HashMatchIsSynced ==
    \A n \in Reached :
        (MatchedFile(n) /\ ~SameStats(n) /\ SameHash(n)) =>
            /\ \E i \in At("synced", CurDir, n) : trace[i].x = "hash matches"
            /\ At("hash", CurDir, n) # {}
            /\ At("yesno", CurDir, n) = {}
            /\ At("upload", CurDir, n) = {}

\* A file with another modification time and the same content was found
\* synced by its hash while --yes was given.
C1_Witness ==
    /\ args.yes
    /\ \E n \in Reached :
        /\ MatchedFile(n) /\ ~SameStats(n) /\ SameHash(n)
        /\ \E i \in At("synced", CurDir, n) : trace[i].x = "hash matches"

\* --------------------------------------------------------------------
\* C2: a kept file whose name matches a remote folder entry is reported as
\* a mismatch with no action: no confirmation, no upload, and no failure of
\* the run on it.
C2_FolderMatchNoAction ==
    \A n \in Reached :
        MatchedFolder(n) =>
            /\ At("no metadata", CurDir, n) # {}
            /\ At("yesno", CurDir, n) = {}
            /\ At("upload", CurDir, n) = {}
            /\ At("exception", CurDir, n) = {}

\* --------------------------------------------------------------------
\* C3: for a kept file whose composed name is no key of the listing, yesno
\* is called exactly once, with default True, and one upload is issued, in
\* mode add, if and only if yesno returned True.
C3_NewFileAskedOnceUploadedAdd ==
    \A n \in Reached :
        ~Matched(n) =>
            /\ Cardinality(At("yesno", CurDir, n)) = 1
            /\ \A i \in At("yesno", CurDir, n) : trace[i].x = "Upload" /\ trace[i].b = TRUE
            /\ Cardinality(At("upload", CurDir, n)) =
                   (IF FileReturns(CurDir, n, TRUE) # {} THEN 1 ELSE 0)
            /\ \A i \in At("upload", CurDir, n) : trace[i].x = "add"

\* A new file was uploaded after an interactive yes, and another one was
\* left alone after an interactive no.
C3_Witness ==
    /\ ~(args.yes \/ args.no \/ args.default)
    /\ \E n, m \in Reached :
        /\ ~Matched(n) /\ ~Matched(m)
        /\ At("upload", CurDir, n) # {}
        /\ FileReturns(CurDir, m, FALSE) # {} /\ At("upload", CurDir, m) = {}

\* --------------------------------------------------------------------
\* C4: for a kept file matched to a remote file record whose stats differ
\* and whose content hash differs, yesno is called exactly once, with
\* default False, and an upload is issued, in mode overwrite, if and only
\* if yesno returned True; under --no and --default there is none.
C4_ChangedFileAskedOnceUploadedOverwrite ==
    \A n \in Reached :
        (MatchedFile(n) /\ ~SameStats(n) /\ ~SameHash(n)) =>
            /\ Cardinality(At("yesno", CurDir, n)) = 1
            /\ \A i \in At("yesno", CurDir, n) : trace[i].x = "Refresh" /\ trace[i].b = FALSE
            /\ Cardinality(At("upload", CurDir, n)) =
                   (IF FileReturns(CurDir, n, TRUE) # {} THEN 1 ELSE 0)
            /\ \A i \in At("upload", CurDir, n) : trace[i].x = "overwrite"
            /\ (args.no \/ args.default) => At("upload", CurDir, n) = {}
            /\ At("mismatch", CurDir, n) # {}

\* A changed file was overwritten under --yes.
C4_Witness ==
    /\ args.yes
    /\ \E n \in Reached :
        /\ MatchedFile(n) /\ ~SameStats(n) /\ ~SameHash(n)
        /\ \E i \in At("upload", CurDir, n) : trace[i].x = "overwrite"

\* A changed file was left as a reported mismatch under --default.
C4_WitnessDefault ==
    /\ args.default
    /\ \E n \in Reached :
        /\ MatchedFile(n) /\ ~SameStats(n) /\ ~SameHash(n)
        /\ FileReturns(CurDir, n, FALSE) # {}

\* --------------------------------------------------------------------
\* C5: a kept file matched to a remote file record of the same size and the
\* same whole-second modification time is already synced: no hash is
\* computed, yesno is not called and nothing is uploaded for it, even when
\* the content differs.
C5_StatsMatchIsSynced ==
    \A n \in Reached :
        (MatchedFile(n) /\ SameStats(n)) =>
            /\ \E i \in At("synced", CurDir, n) : trace[i].x = "stats match"
            /\ At("hash", CurDir, n) = {}
            /\ At("yesno", CurDir, n) = {}
            /\ At("upload", CurDir, n) = {}

\* A file whose stats match and whose content differs was found synced
\* under --yes.
C5_Witness ==
    /\ args.yes
    /\ \E n \in Reached :
        /\ MatchedFile(n) /\ SameStats(n) /\ ~SameHash(n)
        /\ \E i \in At("synced", CurDir, n) : trace[i].x = "stats match"

\* --------------------------------------------------------------------
\* The pruning rules as the claim words them.
SkippedFileName(n) ==
    \/ n[1] \in {".", "@"}
    \/ n[Len(n)] = "~"
    \/ (Len(n) >= 4 /\ SubSeq(n, Len(n) - 3, Len(n)) \in
            {<<".", "p", "y", "c">>, <<".", "p", "y", "o">>})

SkippedDirName(n) ==
    \/ n[1] \in {".", "@"}
    \/ n[Len(n)] = "~"
    \/ n = <<"_", "_", "p", "y", "c", "a", "c", "h", "e", "_", "_">>

FileOps == {"lookup", "hash", "mismatch", "synced", "no metadata", "upload", "uploaded", "api error"}

\* C6: an entry a pruning rule matches is skipped and nothing else happens
\* to it: a skipped file is not looked up, hashed, asked about or uploaded;
\* a skipped directory is not asked about, kept, listed or descended into.
C6_PrunedEntriesUntouched ==
    /\ \A i \in 1..Len(trace) :
        /\ (trace[i].op \in FileOps => ~SkippedFileName(trace[i].name))
        /\ (trace[i].op \in {"yesno", "input", "return", "quit"} =>
                IF trace[i].x = "Descend"
                THEN ~SkippedDirName(trace[i].name)
                ELSE ~SkippedFileName(trace[i].name))
        /\ (trace[i].op = "list" =>
                \A k \in 1..Len(trace[i].dn) : ~SkippedDirName(trace[i].dn[k]))
        /\ (trace[i].op = "skip" =>
                \A j \in 1..Len(trace) :
                    (j # i /\ trace[j].dn = trace[i].dn /\ trace[j].name = trace[i].name)
                        => trace[j].op = "exception")
    /\ \A k \in 1..Len(keep) : ~SkippedDirName(keep[k])
    /\ \A j \in 1..Len(stack) : \A k \in 1..Len(stack[j]) : ~SkippedDirName(stack[j][k])
    /\ (InDir /\ pc \in {"dirs", "walk", "done"}) =>
            \A n \in Range(Files(CurDir)) :
                SkippedFileName(n) => At("skip", CurDir, n) # {}
    /\ (InDir /\ pc = "walk") =>
            \A n \in Range(Dirs(CurDir)) :
                SkippedDirName(n) => At("skip", CurDir, n) # {}

\* Under --yes the whole tree was walked: the dot file, which the listing
\* holds, was skipped with the temporary and generated files, and so was the
\* generated directory.
C6_Witness ==
    /\ args.yes
    /\ pc = "done"
    /\ \A n \in {N_env, N_tmp, N_backup, N_pyc, N_pyo, N_pycache, N_git} :
        At("skip", <<>>, n) # {}
    /\ \E e \in remote[<<>>] : e.name = N_env

\* --------------------------------------------------------------------
Forced == args.yes \/ args.no \/ args.default

\* The answers of yesno under a force flag: no prompt, and the flag's value.
ForcedAnswers ==
    Forced =>
        \A i \in 1..Len(trace) :
            /\ trace[i].op # "input"
            /\ (trace[i].op = "return" =>
                    /\ i > 1 /\ trace[i - 1].op = "yesno"
                    /\ trace[i].b = (IF args.yes THEN TRUE
                                     ELSE IF args.no THEN FALSE
                                     ELSE trace[i - 1].b))

\* The files of the current directory, once its file loop is over.
Done == IF InDir /\ pc \in {"dirs", "walk"} THEN Range(Files(CurDir)) ELSE {}

\* C7 as stated: under a force flag nothing is prompted and every answer is
\* the flag's value, and under --yes every kept file of a visited directory
\* that is new or whose content hash differs from its record is uploaded.
C7_Original ==
    /\ ForcedAnswers
    /\ args.yes =>
        \A n \in Done :
            (~SkippedFileName(n) /\ (~Matched(n) \/ (MatchedFile(n) /\ ~SameHash(n))))
                => At("upload", CurDir, n) # {}

\* C7 as amended: under a force flag nothing is prompted and every answer is
\* the flag's value, and under --yes every kept file the file loop reaches
\* and finds new, or finds with other stats and another content hash than
\* its file record, gets an upload attempt.
C7_ForcedNeverPromptsYesUploads ==
    /\ ForcedAnswers
    /\ args.yes =>
        \A n \in Reached :
            (~Matched(n) \/ (MatchedFile(n) /\ ~SameStats(n) /\ ~SameHash(n)))
                => At("upload", CurDir, n) # {}

\* Under --default a new file was uploaded and a changed one was not, in
\* the same directory.
C7_Witness ==
    /\ args.default
    /\ \E n, m \in Reached :
        /\ ~Matched(n) /\ At("upload", CurDir, n) # {}
        /\ MatchedFile(m) /\ ~SameStats(m) /\ ~SameHash(m)
        /\ FileReturns(CurDir, m, FALSE) # {}

\* --------------------------------------------------------------------
\* C8: once a prompt is answered with q or quit nothing more happens: the
\* quit is the last event of the run, whatever was still to be walked, and
\* the process has ended with exit code 0.
C8_QuitEndsTheWalk ==
    \A i \in 1..Len(trace) :
        trace[i].op = "quit" => (i = Len(trace) /\ pc = "quit" /\ exitcode = 0)

\* A quit given at the first file of the root, with files and directories
\* still to come.
C8_Witness ==
    /\ pc = "quit"
    /\ stack = <<<<>>>>
    /\ idx = 1
    /\ pending.what = "Upload"
    /\ Len(Files(<<>>)) > 1 /\ Len(Dirs(<<>>)) > 1

\* --------------------------------------------------------------------
\* C9: a failed listing yields the empty listing and does not end the run.
C9_ListingFailureAbsorbed ==
    \A i \in 1..Len(trace) :
        (trace[i].op = "list" /\ trace[i].x # "ok") =>
            /\ ~(i < Len(trace) /\ trace[i + 1].op = "exception")
            /\ (i = Len(trace) => (listing = EmptyListing /\ pc # "crashed"))

\* --------------------------------------------------------------------
\* C10: a failed upload is reported, not retried, and does not end the run.
C10_UploadFailureAbsorbed ==
    \A i \in 1..Len(trace) :
        trace[i].op = "upload" =>
            /\ ~(i < Len(trace) /\ trace[i + 1].op = "exception")
            /\ Cardinality(At("upload", trace[i].dn, trace[i].name)) = 1

\* --------------------------------------------------------------------
\* The composed form of the names of the tree.
ComposedName(n) == IF n = <<"e", "COMBINING_ACUTE">> THEN <<"E_ACUTE">> ELSE n

\* C11: a kept file whose composed name is the name of an entry of the
\* listing is found in the listing and is not offered as a new upload, also
\* when the local name is stored decomposed.
C11_ComposedNameMatches ==
    \A n \in Reached :
        (\E k \in DOMAIN listing : listing[k].name = ComposedName(n)) =>
            /\ \A i \in At("lookup", CurDir, n) : trace[i].x = "found"
            /\ \A i \in At("yesno", CurDir, n) : trace[i].x # "Upload"

\* The decomposed name met its composed entry and was found synced.
C11_Witness ==
    /\ InDir
    /\ <<"E_ACUTE">> \in DOMAIN listing
    /\ At("synced", CurDir, <<"e", "COMBINING_ACUTE">>) # {}

\* --------------------------------------------------------------------
\* C13: with more than one confirmation flag on the command line the
\* process ends at startup with the usage error, before anything is listed,
\* asked or uploaded, and no run has two flags set.
C13_ConflictingFlagsFailAtStartup ==
    /\ Cardinality(argv) > 1 =>
          /\ pc \in {"start", "usage"}
          /\ trace = <<>>
          /\ revealed = {}
          /\ pc = "usage" => exitcode = 2
    /\ Cardinality({k \in {"yes", "no", "default"} : args[k]}) <= 1

\* --yes together with --no ended in the usage error.
C13_Witness ==
    /\ argv = {"yes", "no"}
    /\ pc = "usage"
    /\ exitcode = 2

\* --------------------------------------------------------------------
\* C15: the report of a file whose name a remote folder bears is not the end
\* of the run: the run does not fail on it.
C15_CollisionDoesNotStopTheWalk ==
    \A i \in 1..Len(trace) :
        trace[i].op = "no metadata" => (pc # "crashed" /\ exitcode \in {-1, 0})

\* --------------------------------------------------------------------
Parent(dn) == SubSeq(dn, 1, Len(dn) - 1)
Last(dn) == dn[Len(dn)]

ListedDirs == {trace[i].dn : i \in {j \in 1..Len(trace) : trace[j].op = "list"}}

\* The directory was not pruned and was offered once, with default True,
\* and accepted.
Confirmed(dn) ==
    /\ ~SkippedDirName(Last(dn))
    /\ Cardinality({i \in At("yesno", Parent(dn), Last(dn)) : trace[i].x = "Descend"}) = 1
    /\ \A i \in At("yesno", Parent(dn), Last(dn)) : trace[i].b = TRUE
    /\ \E i \in At("return", Parent(dn), Last(dn)) :
          trace[i].x = "Descend" /\ trace[i].b = TRUE

ChainConfirmed(dn) == \A k \in 1..Len(dn) : Confirmed(SubSeq(dn, 1, k))

\* Everything that happened, happened in a directory whose chain was
\* confirmed.
TraceDirs == {trace[i].dn : i \in 1..Len(trace)}

NothingBelowUnconfirmed ==
    \A dn \in TraceDirs : ChainConfirmed(dn)

Visited(dn) ==
    /\ dn \in ListedDirs
    /\ \A n \in Range(Files(dn)) : At("skip", dn, n) # {} \/ At("lookup", dn, n) # {}

\* C16 as stated: whenever the run has ended, a directory below the root was
\* visited if and only if its chain was confirmed.
C16_Original ==
    /\ NothingBelowUnconfirmed
    /\ pc \in {"done", "quit"} =>
          \A dn \in AllDirs \ {<<>>} : ChainConfirmed(dn) <=> dn \in ListedDirs

\* C16 as amended: nothing is listed, asked or uploaded below a directory
\* that was pruned or declined, and when the walk has run to its end the
\* directories visited are exactly those whose chain was confirmed.
C16_VisitedIffChainConfirmed ==
    /\ NothingBelowUnconfirmed
    /\ pc = "done" =>
          \A dn \in AllDirs \ {<<>>} : ChainConfirmed(dn) <=> Visited(dn)

\* The walk ended with the nested directory visited and a declined
\* directory, and what is pruned, left out.
C16_Witness ==
    /\ pc = "done"
    /\ Visited(<<N_sub, N_deep>>)
    /\ \E i \in At("return", <<>>, N_t) : trace[i].b = FALSE
    /\ <<N_t>> \notin ListedDirs
    /\ <<N_pycache>> \notin ListedDirs

\* --------------------------------------------------------------------
FileStep(e) ==
    \/ e.op \in {"upload", "uploaded", "api error", "hash", "lookup"}
    \/ e.op \in {"yesno", "input", "return", "quit"} /\ e.x \in {"Upload", "Refresh"}

DescendStep(e) == e.op \in {"yesno", "input", "return", "quit"} /\ e.x = "Descend"

Below(dn, sub) == Len(sub) > Len(dn) /\ SubSeq(sub, 1, Len(dn)) = dn

\* C17: in a directory every prompt and upload for a file comes before the
\* first prompt to descend, and every prompt to descend comes before any
\* listing, prompt or upload in a directory below.
C17_FilesThenDirsThenBelow ==
    \A dn \in TraceDirs :
        LET here == {i \in 1..Len(trace) : trace[i].dn = dn}
            files == {i \in here : FileStep(trace[i])}
            descends == {i \in here : DescendStep(trace[i])}
            steps == files \cup descends
            below == {k \in 1..Len(trace) : Below(dn, trace[k].dn)} IN
        /\ \A i \in files : \A j \in descends : i < j
        /\ \A j \in below : \A i \in steps : i < j

\* Uploads in the root, then its prompts to descend, then an upload below.
C17_Witness ==
    /\ At("upload", <<>>, N_a) # {}
    /\ At("upload", <<N_sub>>, N_c) # {}
    /\ \E i \in At("yesno", <<>>, N_t) : trace[i].x = "Descend"

\* --------------------------------------------------------------------
\* C18: a directory is listed at most once, before anything is done with
\* its files, and while its files and subdirectories are gone through the
\* listing stays as fetched, uploads into the directory included.
ListedOnceAndFirst ==
    \A dn \in TraceDirs :
        LET here == {i \in 1..Len(trace) : trace[i].dn = dn}
            lists == {i \in here : trace[i].op = "list"} IN
        /\ Cardinality(lists) = 1
        /\ \A i \in lists : \A j \in here : i <= j

C18_ListedOnceSnapshotKept ==
    /\ []ListedOnceAndFirst
    /\ [][(pc \in {"files", "dirs", "input"}) => (listing' = listing)]_vars

\* A file was uploaded and stored, the listing of its directory still lacks
\* it, and the next file has been compared since.
C18_Witness ==
    /\ InDir
    /\ At("uploaded", CurDir, N_a) # {}
    /\ N_a \notin DOMAIN listing
    /\ \E e \in remote[CurDir] : e.name = N_a
    /\ At("lookup", CurDir, N_e_nfd) # {}

\* --------------------------------------------------------------------
\* The remote paths of list_directory, download and upload, built from one
\* (directory, subdirectory, name) on a system whose separator is `sep`.
\* A path is a sequence of characters.
MaxDirLen == 3

\* The destinations given on the command line: the root in its spellings
\* and a folder with and without surrounding and doubled separators.
RECURSIVE SeqsUpTo(_, _)
SeqsUpTo(S, n) ==
    IF n = 0 THEN {<<>>}
    ELSE LET shorter == SeqsUpTo(S, n - 1) IN
         shorter \cup {Append(s, c) : s \in {t \in shorter : Len(t) = n - 1}, c \in S}

Directories == SeqsUpTo({"/", "d"}, MaxDirLen)

\* os.path.sep of the two families of systems.
Seps == {"/", "\\"}

\* subdir of main(): the part of dn below rootdir, without the separators
\* around it.
Subdirectories(sep) == {<<>>, <<"s">>, <<"s", sep, "t">>}

PathNames == {N_a, N_e_nfd}

\* subdirectory.replace(os.path.sep, '/')
ReplaceSep(s, sep) == [i \in 1..Len(s) |-> IF s[i] = sep THEN "/" ELSE s[i]]

\* '//' in path
HasDouble(p) == \E i \in 1..(Len(p) - 1) : p[i] = "/" /\ p[i + 1] = "/"

\* path.replace('//', '/'): the occurrences found from the left, each
\* after the end of the one before.
RECURSIVE ReplaceDouble(_)
ReplaceDouble(p) ==
    IF Len(p) < 2 THEN p
    ELSE IF p[1] = "/" /\ p[2] = "/"
         THEN <<"/">> \o ReplaceDouble(SubSeq(p, 3, Len(p)))
         ELSE <<p[1]>> \o ReplaceDouble(Tail(p))

\* One pass of the replacement instead of the loop.
CollapseOnce(p) == ReplaceDouble(p)

\* while '//' in path: path = path.replace('//', '/')
RECURSIVE Collapse(_)
Collapse(p) == IF HasDouble(p) THEN Collapse(ReplaceDouble(p)) ELSE p

\* path.rstrip('/')
RECURSIVE RStrip(_)
RStrip(p) ==
    IF p # <<>> /\ p[Len(p)] = "/" THEN RStrip(SubSeq(p, 1, Len(p) - 1)) ELSE p

\* '/%s/%s' % (directory, subdirectory...), collapsed and stripped.
ListPath(directory, subdirectory, sep) ==
    RStrip(Collapse(<<"/">> \o directory \o <<"/">> \o ReplaceSep(subdirectory, sep)))

\* '/%s/%s/%s' % (directory, subdirectory..., name), collapsed.
DownloadPath(directory, subdirectory, name, sep) ==
    Collapse(<<"/">> \o directory \o <<"/">> \o ReplaceSep(subdirectory, sep)
             \o <<"/">> \o name)

UploadPath(directory, subdirectory, name, sep) ==
    Collapse(<<"/">> \o directory \o <<"/">> \o ReplaceSep(subdirectory, sep)
             \o <<"/">> \o name)

PathKinds == {"list", "download", "upload"}

PathCalls ==
    {[at |-> "call", directory |-> d, subdirectory |-> s, name |-> n, sep |-> c,
      built |-> {}, list |-> <<>>, download |-> <<>>, upload |-> <<>>] :
        d \in Directories, s \in UNION {Subdirectories(c2) : c2 \in Seps},
        n \in PathNames, c \in Seps}

InitPath ==
    /\ paths \in {p \in PathCalls : p.subdirectory \in Subdirectories(p.sep)}
    /\ argv = {}
    /\ args = NoArgs
    /\ pc = "start"
    /\ WalkInit
    /\ hashing = NoHashing
    /\ yn = NoYesno

PathRest == <<args, pc, stack, idx, keep, listing, remote, revealed, pending,
              reprompts, trace, exitcode, argv, run, hashing, yn>>

BuildListPath ==
    /\ paths.at = "call"
    /\ "list" \notin paths.built
    /\ paths' = [paths EXCEPT !.built = @ \cup {"list"},
                              !.list = ListPath(paths.directory, paths.subdirectory,
                                                paths.sep)]
    /\ UNCHANGED PathRest

BuildDownloadPath ==
    /\ paths.at = "call"
    /\ "download" \notin paths.built
    /\ paths' = [paths EXCEPT !.built = @ \cup {"download"},
                              !.download = DownloadPath(paths.directory,
                                               paths.subdirectory, paths.name, paths.sep)]
    /\ UNCHANGED PathRest

BuildUploadPath ==
    /\ paths.at = "call"
    /\ "upload" \notin paths.built
    /\ paths' = [paths EXCEPT !.built = @ \cup {"upload"},
                              !.upload = UploadPath(paths.directory,
                                             paths.subdirectory, paths.name, paths.sep)]
    /\ UNCHANGED PathRest

NextPath ==
    \/ BuildListPath
    \/ BuildDownloadPath
    \/ BuildUploadPath

SpecPath == InitPath /\ [][NextPath]_vars

\* --------------------------------------------------------------------
PathsBuilt == paths.at = "call" /\ paths.built = PathKinds

BeginsWithSlash(p) == p # <<>> /\ p[1] = "/"
EndsWithSlash(p) == p # <<>> /\ p[Len(p)] = "/"

\* The destination is the root of the remote store and the directory is
\* the source root itself.
AtRemoteRoot ==
    /\ \A i \in 1..Len(paths.directory) : paths.directory[i] = "/"
    /\ paths.subdirectory = <<>>

\* C12 as stated: the three paths begin with '/', hold no run of
\* separators, end with no separator unless they are the root '/', and the
\* upload and download path is the listing path, '/', the name.
C12_Original ==
    PathsBuilt =>
        /\ \A p \in {paths.list, paths.download, paths.upload} :
              /\ BeginsWithSlash(p)
              /\ ~HasDouble(p)
              /\ EndsWithSlash(p) => p = <<"/">>
        /\ paths.upload = paths.list \o <<"/">> \o paths.name
        /\ paths.download = paths.list \o <<"/">> \o paths.name

\* C12: the upload and the download path begin with '/', the listing path
\* begins with '/' unless it is the empty path that stands for the root of
\* the remote store; none of the three holds a run of separators or ends
\* with one; the upload and the download path are the listing path of the
\* directory, then '/', then the name.
C12_PathsNormalizedAlike ==
    PathsBuilt =>
        /\ BeginsWithSlash(paths.upload)
        /\ BeginsWithSlash(paths.download)
        /\ IF AtRemoteRoot THEN paths.list = <<>> ELSE BeginsWithSlash(paths.list)
        /\ \A p \in {paths.list, paths.download, paths.upload} :
              ~HasDouble(p) /\ ~EndsWithSlash(p)
        /\ paths.upload = paths.list \o <<"/">> \o paths.name
        /\ paths.download = paths.list \o <<"/">> \o paths.name

\* A destination written with doubled and surrounding separators, a
\* two-level subdirectory under the backslash separator.
C12_Witness ==
    /\ PathsBuilt
    /\ paths.directory = <<"/", "/", "d">>
    /\ paths.subdirectory = <<"s", "\\", "t">>
    /\ paths.sep = "\\"
    /\ paths.name = N_e_nfd
    /\ paths.list = <<"/", "d", "/", "s", "/", "t">>
    /\ paths.upload = <<"/", "d", "/", "s", "/", "t", "/">> \o N_e_nfd

\* --------------------------------------------------------------------
\* One call of dropbox_hash, read by read, on a file of a few bytes and
\* with the chunk size a parameter.
MaxFileLen == 5
MaxChunk == 3

FileContents == SeqsUpTo({0, 1}, MaxFileLen)
ChunkSizes == (1..MaxChunk) \cup {ReadChunk}

HashCalls ==
    {[at |-> "read", content |-> c, n |-> n, pos |-> 0, chunk |-> <<>>,
      hasher |-> NewHasher, fed |-> <<>>, digest |-> <<>>] :
        c \in FileContents, n \in ChunkSizes}

InitHash ==
    /\ hashing \in HashCalls
    /\ argv = {}
    /\ args = NoArgs
    /\ pc = "start"
    /\ WalkInit
    /\ paths = NoPaths
    /\ yn = NoYesno

HashRest == <<args, pc, stack, idx, keep, listing, remote, revealed, pending,
              reprompts, trace, exitcode, argv, run, paths, yn>>

\* chunk = f.read(...)
HashRead ==
    /\ hashing.at = "read"
    /\ LET chunk == FRead(hashing.content, hashing.pos, hashing.n) IN
       hashing' = [hashing EXCEPT !.at = "test", !.chunk = chunk,
                                  !.pos = @ + Len(chunk)]
    /\ UNCHANGED HashRest

\* hasher.update(chunk); `fed` records what the hasher was given.
HashUpdate ==
    /\ hashing.at = "test"
    /\ Len(hashing.chunk) # 0
    /\ hashing' = [hashing EXCEPT !.at = "read",
                                  !.hasher = HasherUpdate(@, hashing.chunk),
                                  !.fed = @ \o hashing.chunk]
    /\ UNCHANGED HashRest

\* if len(chunk) == 0: break; return hasher.hexdigest()
HashReturn ==
    /\ hashing.at = "test"
    /\ Len(hashing.chunk) = 0
    /\ hashing' = [hashing EXCEPT !.at = "done", !.digest = HexDigest(hashing.hasher)]
    /\ UNCHANGED HashRest

NextHash ==
    \/ HashRead
    \/ HashUpdate
    \/ HashReturn

SpecHash == InitHash /\ [][NextHash]_vars

\* --------------------------------------------------------------------
\* The blocks of a byte sequence: BlockSize bytes each, the last one
\* shorter when the length is no multiple of it.
NBlocks(content) == (Len(content) + BlockSize - 1) \div BlockSize
Block(content, i) ==
    SubSeq(content, (i - 1) * BlockSize + 1, Min(i * BlockSize, Len(content)))

\* The digest of the digests of the blocks, in order.
ContentHash(content) ==
    Sha256([i \in 1..NBlocks(content) |-> Sha256(Block(content, i))])

IsPrefix(s, t) == Len(s) <= Len(t) /\ s = SubSeq(t, 1, Len(s))

\* C14: what the hasher has been fed is at every moment the bytes of the
\* file up to the read position, in file order; when dropbox_hash returns,
\* it is the whole file, and the digest returned is the digest of the
\* digests of the file's consecutive blocks, whatever the chunk size read
\* with, hence the digest the program's own chunk size gives.
C14_DigestOfBytesAnyChunking ==
    hashing.at # "idle" =>
        /\ IsPrefix(hashing.fed, hashing.content)
        /\ hashing.at = "read" => Len(hashing.fed) = hashing.pos
        /\ hashing.at = "done" =>
              /\ hashing.fed = hashing.content
              /\ hashing.digest = ContentHash(hashing.content)
              /\ hashing.digest = dropbox_hash(hashing.content)

\* A file of two full blocks and a shorter one, read in chunks that
\* straddle the block boundaries and leave a short last chunk.
C14_Witness ==
    /\ hashing.at = "done"
    /\ hashing.content = <<1, 0, 0, 1, 1>>
    /\ hashing.n = 3
    /\ Len(hashing.hasher.digests) = 2
    /\ hashing.hasher.block = <<1>>
    /\ hashing.digest = Sha256(<<Sha256(<<1, 0>>), Sha256(<<0, 1>>), Sha256(<<1>>)>>)

\* --------------------------------------------------------------------
\* One call of yesno(message, default, args), line by line.
MaxLines == 3

YesnoCalls ==
    {[at |-> "call", default |-> d, typed |-> <<>>, value |-> FALSE] : d \in BOOLEAN}

InitYesno ==
    /\ yn \in YesnoCalls
    /\ args \in FlagSets
    /\ argv = {k \in Flags : args[k]}
    /\ pc = "start"
    /\ WalkInit
    /\ paths = NoPaths
    /\ hashing = NoHashing

YesnoRest == <<args, pc, stack, idx, keep, listing, remote, revealed, pending,
               reprompts, trace, exitcode, argv, run, paths, hashing>>

\* if args.default / args.yes / args.no: the answer without a prompt.
YesnoForced ==
    /\ yn.at = "call"
    /\ AutoAnswer(yn.default).forced
    /\ yn' = [yn EXCEPT !.at = "returned", !.value = AutoAnswer(yn.default).value]
    /\ UNCHANGED YesnoRest

\* No flag: the message gets its [Y/n] or [N/y] and the loop is entered.
YesnoPrompt ==
    /\ yn.at = "call"
    /\ ~AutoAnswer(yn.default).forced
    /\ yn' = [yn EXCEPT !.at = "input"]
    /\ UNCHANGED YesnoRest

\* answer in ('p', 'pdb')
DebuggerToken(answer) == answer \in {<<"p">>, <<"p", "d", "b">>}

\* input() returned a line: one turn of the loop.
YesnoLine ==
    /\ yn.at = "input"
    /\ Len(yn.typed) < MaxLines
    /\ \E raw \in Inputs :
         LET answer == Lower(Strip(raw))
             r == Interpret(answer, yn.default) IN
         yn' = [yn EXCEPT !.typed = Append(@, raw),
                          !.value = r.value,
                          !.at = IF r.kind = "return" THEN "returned"
                                 ELSE IF r.kind = "quit" THEN "quit"
                                 ELSE IF DebuggerToken(answer) THEN "pdb"
                                 ELSE "input"]
    /\ UNCHANGED YesnoRest

\* pdb.set_trace(): the debugger session, resumed; then the guidance
\* message and the next turn.
YesnoDebugger ==
    /\ yn.at = "pdb"
    /\ yn' = [yn EXCEPT !.at = "input"]
    /\ UNCHANGED YesnoRest

\* input() met the end of its input: EOFError leaves yesno.
YesnoEOF ==
    /\ yn.at = "input"
    /\ yn' = [yn EXCEPT !.at = "crashed"]
    /\ UNCHANGED YesnoRest

NextYesno ==
    \/ YesnoForced
    \/ YesnoPrompt
    \/ YesnoLine
    \/ YesnoDebugger
    \/ YesnoEOF

SpecYesno == InitYesno /\ [][NextYesno]_vars

\* --------------------------------------------------------------------
\* The recognized inputs, as typed but for surrounding blanks and case.
Token(raw) == Lower(Strip(raw))
IsBlank(raw) == Token(raw) = <<>>
IsYes(raw) == Token(raw) \in {<<"y">>, <<"y", "e", "s">>}
IsNo(raw) == Token(raw) \in {<<"n">>, <<"n", "o">>}
IsQuit(raw) == Token(raw) \in {<<"q">>, <<"q", "u", "i", "t">>}
Recognized(raw) == IsBlank(raw) \/ IsYes(raw) \/ IsNo(raw) \/ IsQuit(raw)

NoFlag == ~args.yes /\ ~args.no /\ ~args.default
YesnoOver == yn.at \in {"returned", "quit"}

\* C19: with no flag set, a call of yesno is over only after a recognized
\* line, the first one typed: blank gave the default, y/yes true, n/no
\* false and q/quit ended the program; and as long as the call is not over
\* (it waits for a line, is in the debugger, or has lost its input) no
\* recognized line has been typed, the p/pdb lines being among the
\* unrecognized ones.
C19_ResolvesOnRecognizedInputOnly ==
    (yn.at # "idle" /\ NoFlag) =>
        LET n == Len(yn.typed) IN
        /\ YesnoOver =>
              /\ n >= 1
              /\ Recognized(yn.typed[n])
              /\ \A i \in 1..(n - 1) : ~Recognized(yn.typed[i])
              /\ (yn.at = "quit") <=> IsQuit(yn.typed[n])
              /\ IsBlank(yn.typed[n]) => yn.value = yn.default
              /\ IsYes(yn.typed[n]) => yn.value = TRUE
              /\ IsNo(yn.typed[n]) => yn.value = FALSE
        /\ ~YesnoOver => \A i \in 1..n : ~Recognized(yn.typed[i])
        /\ yn.at = "pdb" => (n >= 1 /\ DebuggerToken(Token(yn.typed[n])))

\* The debugger token, an unknown word, then a no in capitals against a
\* default of yes.
C19_Witness ==
    /\ NoFlag
    /\ yn.at = "returned"
    /\ yn.default = TRUE
    /\ yn.typed = << <<"p", "d", "b">>, <<"x">>, <<"N", "O", " ">> >>
    /\ yn.value = FALSE

\* --------------------------------------------------------------------
\* A second run of the program over the same tree, with the same command
\* line, after a run under --yes that went to its end with no upload
\* refused: a new process, a new walk, and the store as the first run left
\* it.
Rerun ==
    /\ pc = "done"
    /\ run = 1
    /\ args.yes
    /\ \A i \in 1..Len(trace) : trace[i].op # "api error"
    /\ run' = 2
    /\ pc' = "start"
    /\ args' = NoArgs
    /\ stack' = <<<<>>>>
    /\ idx' = 0
    /\ keep' = <<>>
    /\ listing' = EmptyListing
    /\ pending' = NoPending
    /\ reprompts' = 0
    /\ trace' = <<>>
    /\ exitcode' = -1
    /\ UNCHANGED <<remote, revealed, argv, paths, hashing, yn>>

NextRerun ==
    \/ Next
    \/ Rerun

SpecRerun == Init /\ [][NextRerun]_vars

\* C20: a second run whose listings all succeed attempts no upload.
C20_SecondRunUploadsNothing ==
    (run = 2 /\ \A i \in 1..Len(trace) : trace[i].op = "list" => trace[i].b)
        => \A i \in 1..Len(trace) : trace[i].op # "upload"
====
